---- MODULE Spec2Model ----
(***************************************************************************)
(* HandTracker (src/zen-particles/src/components/Controls.tsx, 60-257):    *)
(* the asynchronous start-up of camera and hand detector, the cleanup on   *)
(* unmount, and the per-frame gesture interpretation (processFrame).       *)
(*                                                                         *)
(* JavaScript numbers are modelled as exact rationals [n, d] in lowest     *)
(* terms with d > 0; the two non-finite values computeTension can produce  *)
(* are the records with d = 0 (NaN and +Infinity).                         *)
(***************************************************************************)
EXTENDS Integers, Sequences, FiniteSets, TLC

\* The video timestamps a run goes through are 0..MaxFrames.
MaxFrames == 4
\* start() is invoked at most MaxStarts times (the first one and the retries).
MaxStarts == 2

-----------------------------------------------------------------------------
(* Rational arithmetic *)

Abs(i) == IF i < 0 THEN -i ELSE i

RECURSIVE GCD(_, _)
GCD(a, b) == IF b = 0 THEN a ELSE GCD(b, a % b)

LCM(a, b) == (a \div GCD(a, b)) * b

\* n/d in lowest terms, d > 0 (the divisions are exact)
R(n, d) ==
  LET g == GCD(Abs(n), d)
  IN  [n |-> n \div g, d |-> d \div g]

Zero == R(0, 1)
One == R(1, 1)
NaN == [n |-> 0, d |-> 0]
PosInf == [n |-> 1, d |-> 0]

IsFinite(a) == a.d > 0

RAdd(a, b) ==
  LET l == LCM(a.d, b.d)
  IN  R(a.n * (l \div a.d) + b.n * (l \div b.d), l)

RNeg(a) == [n |-> -a.n, d |-> a.d]

RSub(a, b) == RAdd(a, RNeg(b))

\* the factors are reduced crosswise first, which keeps the products small
RMul(a, b) ==
  IF a.n = 0 \/ b.n = 0 THEN Zero
  ELSE LET g1 == GCD(Abs(a.n), b.d)
           g2 == GCD(Abs(b.n), a.d)
       IN  [n |-> (a.n \div g1) * (b.n \div g2), d |-> (a.d \div g2) * (b.d \div g1)]

RLt(a, b) ==
  LET l == LCM(a.d, b.d)
  IN  a.n * (l \div a.d) < b.n * (l \div b.d)

RLe(a, b) == a = b \/ RLt(a, b)

RAbs(a) == [n |-> Abs(a.n), d |-> a.d]

ISqrt(i) == CHOOSE r \in 0..i : r * r = i

\* Math.sqrt, exact: defined on the rationals that have a rational root.
RSqrt(a) == [n |-> ISqrt(a.n), d |-> ISqrt(a.d)]

-----------------------------------------------------------------------------
(* JavaScript number operations used by computeTension, where a division   *)
(* by zero yields NaN or Infinity instead of throwing.                     *)

\* a / b for a >= 0 and b >= 0
JSDiv(a, b) ==
  IF ~IsFinite(a) \/ ~IsFinite(b) THEN NaN
  ELSE IF b.n = 0 THEN (IF a.n = 0 THEN NaN ELSE PosInf)
  ELSE RMul(a, [n |-> b.d, d |-> b.n])

\* Math.max(a, b), b finite
JSMax(a, b) ==
  IF a = NaN THEN NaN
  ELSE IF a = PosInf THEN PosInf
  ELSE IF RLt(a, b) THEN b ELSE a

\* Math.min(a, b), b finite
JSMin(a, b) ==
  IF a = NaN THEN NaN
  ELSE IF a = PosInf THEN b
  ELSE IF RLt(b, a) THEN b ELSE a

\* a - b, a finite
JSSub(a, b) == IF IsFinite(b) THEN RSub(a, b) ELSE NaN

\* v || 0
OrZero(v) == IF v = NaN \/ v = Zero THEN Zero ELSE v

-----------------------------------------------------------------------------
(* computeTension *)

Pt3(x, y, z) == [x |-> x, y |-> y, z |-> z]

distance3d(a, b) ==
  LET dx == RSub(a.x, b.x)
      dy == RSub(a.y, b.y)
      dz == RSub(OrZero(a.z), OrZero(b.z))
  IN  RSqrt(RAdd(RAdd(RMul(dx, dx), RMul(dy, dy)), RMul(dz, dz)))

RECURSIVE SumDist(_, _, _)
SumDist(landmarks, idx, wrist) ==
  IF idx = <<>> THEN Zero
  ELSE RAdd(SumDist(landmarks, SubSeq(idx, 1, Len(idx) - 1), wrist),
            distance3d(landmarks[idx[Len(idx)]], wrist))

FingerTips == <<4, 8, 12, 16, 20>>
Bases == <<5, 9, 13, 17>>

AvgTip(landmarks) ==
  RMul(SumDist(landmarks, FingerTips, landmarks[0]), R(1, Len(FingerTips)))

PalmSize(landmarks) ==
  RMul(SumDist(landmarks, Bases, landmarks[0]), R(1, Len(Bases)))

OpenRatio(landmarks) ==
  JSDiv(AvgTip(landmarks), RMul(PalmSize(landmarks), R(16, 10)))

computeTension(landmarks) ==
  LET openRatio == OpenRatio(landmarks)
      tension == JSSub(One, JSMin(JSMax(openRatio, Zero), One))
  IN  JSMin(JSMax(tension, Zero), One)

-----------------------------------------------------------------------------
(* State *)

VARIABLES
  state,          \* useState<TrackerState>
  error,          \* useState<string | null>
  cameraError,    \* App: the last argument handed to onError (setCameraError)
  mounted,        \* the HandTracker component is mounted
  videoRef,       \* videoRef.current is the <video> element (TRUE) or null
  srcObject,      \* video.srcObject: a stream id, 0 for none
  liveStreams,    \* the camera streams whose tracks are live
  handLandmarker, \* handLandmarker.current: a detector id, 0 for null
  openDetectors,  \* the detectors created and not closed
  rafRef,         \* rafRef.current: a request id, 0 for null
  scheduled,      \* the animation-frame requests pending, each for processFrame
  pc,             \* where the one start() invocation in flight stands
  nStarts,        \* how many times start() has been invoked
  videoTime,      \* video.currentTime
  lastVideoTime,
  lastPan,
  lastZoom,
  baseWristPos,
  controlsRef,
  controls,       \* App: the last ControlSignal handed to onControls (setControls)
  nControls,      \* how many times onControls has been invoked
  frame,          \* the detection result of the last frame that reached onControls
  handIn,         \* SpecTension: the landmarks handed to computeTension (else null)
  tensionOut,     \* SpecTension: what computeTension returned (null before the call)
  scenario,       \* SpecScenario: the wrist the scripted hand starts at (else null)
  shapeType,      \* generateGeometry: the argument type
  count,          \* generateGeometry: the argument count
  index,          \* generateGeometry: the loop variable i
  positions,      \* generateGeometry: the Float32Array, indexed from 0
  writes,         \* how many times each element of positions has been assigned
  gPc,            \* generateGeometry: "idle" (not called), "loop" or "done" (returned)
  mode,           \* App: useState<Mode>, the prop of the scene renderer
  modeRef,        \* scene renderer: modeRef.current
  modelUrl,       \* App: useState, 0 for null, else the number of the file chosen
  modelRef,       \* scene renderer: modelRef.current, 0 for null, else an object
  inScene,        \* the loaded objects that are children of the scene
  visibleObjs,    \* the loaded objects whose .visible is true
  sceneVisible,   \* .visible of the sun, the star field, the system group, the dots
  loads,          \* the loader.load() calls whose callback has not run yet
  nFiles          \* how many files have been chosen

gestureVars == <<lastVideoTime, lastPan, lastZoom, baseWristPos, controlsRef,
                 controls, nControls, frame>>
rafVars == <<rafRef, scheduled>>
resourceVars == <<srcObject, liveStreams, handLandmarker, openDetectors>>
trackerVars == <<state, error, cameraError, mounted, videoRef, pc, nStarts>>
tensionVars == <<handIn, tensionOut>>
geometryVars == <<shapeType, count, index, positions, writes, gPc>>
sceneVars == <<mode, modeRef, modelUrl, modelRef, inScene, visibleObjs, sceneVisible,
               loads, nFiles>>
\* what the hand tracker never touches
restVars == <<tensionVars, scenario, geometryVars, sceneVars>>
vars == <<trackerVars, resourceVars, rafVars, videoTime, gestureVars, restVars>>

-----------------------------------------------------------------------------
(* The gesture interpretation of processFrame, lines 168-236 *)

\* A nullable value is a sequence of at most one element.
Null == <<>>
Some(v) == <<v>>

Pt2(x, y) == [x |-> x, y |-> y]

\* THREE.MathUtils.clamp(value, min, max) and Math.min(Math.max(value, min), max)
Clamp(value, min, max) ==
  IF RLt(value, min) THEN min ELSE IF RLt(max, value) THEN max ELSE value

FistThreshold == R(7, 10)

\* the fist taken as closed from the threshold on (>= in place of >)
IsFistClosedAtThreshold(t) == RLe(FistThreshold, t)

IsFistClosed(t) == RLt(FistThreshold, t)

TargetZoom(t) == RAdd(R(1, 2), RMul(t, R(2, 1)))

SmoothZoom(zoom, targetZoom) ==
  RAdd(RMul(zoom, R(7, 10)), RMul(targetZoom, R(3, 10)))

EmittedZoom(zoom) == Clamp(zoom, R(1, 2), R(5, 2))

\* the anchor latched on every frame with a hand
InitBaseRelatch(base, wrist) == Some(Pt2(wrist.x, wrist.y))

\* lines 175-177
InitBase(base, wrist) == IF base = Null THEN Some(Pt2(wrist.x, wrist.y)) ELSE base

\* the x axis driven against the wrist, as for an unmirrored camera image
ClosedPanMirrored(pan, wrist, base) ==
  LET dx == RMul(RNeg(RSub(wrist.x, base[1].x)), R(6, 1))
      dy == RMul(RNeg(RSub(wrist.y, base[1].y)), R(6, 1))
  IN  Pt2(RAdd(RMul(pan.x, R(6, 10)), RMul(dx, R(4, 10))),
          RAdd(RMul(pan.y, R(6, 10)), RMul(dy, R(4, 10))))

\* lines 191-198
ClosedPan(pan, wrist, base) ==
  LET dx == RMul(RSub(wrist.x, base[1].x), R(6, 1))
      dy == RMul(RNeg(RSub(wrist.y, base[1].y)), R(6, 1))
  IN  Pt2(RAdd(RMul(pan.x, R(6, 10)), RMul(dx, R(4, 10))),
          RAdd(RMul(pan.y, R(6, 10)), RMul(dy, R(4, 10))))

\* lines 200-201
ClosedEmittedPan(pan) == Pt2(Clamp(pan.x, R(-1, 1), One), Clamp(pan.y, R(-1, 1), One))

\* the anchor left alone when the hand is open
OpenBaseKeep(base, wrist) == base

\* line 205
OpenBase(base, wrist) == Some(Pt2(wrist.x, wrist.y))

\* lines 207-210
OpenPan(pan) == Pt2(RMul(pan.x, R(85, 100)), RMul(pan.y, R(85, 100)))

\* lines 211-212
OpenEmittedPan(pan) == pan

\* line 224
NoHandBase(base) == Null

\* the pan kept as it is when no hand is seen
NoHandPanKeep(pan) == pan

\* lines 225-228
NoHandPan(pan) == Pt2(RMul(pan.x, R(9, 10)), RMul(pan.y, R(9, 10)))

Signal(zoom, panX, panY) ==
  [zoom |-> zoom, panX |-> panX, panY |-> panY, hasBothHands |-> FALSE]

\* lines 229-234
NoHandControls(prev, pan) == Signal(prev.zoom, pan.x, pan.y)

\* the default signal with a zoom of 0 in place of the neutral 1
InitControlsRefZeroZoom == Signal(Zero, Zero, Zero)

\* lines 100-105
InitControlsRef == Signal(One, Zero, Zero)

\* App, line 268
initialControls == Signal(R(6, 10), Zero, Zero)

-----------------------------------------------------------------------------
(* What the environment supplies *)

\* A hand whose wrist is at (wx, wy, 0), whose four finger bases are 1/10 and
\* whose five fingertips are tipDist away from the wrist in depth.
Hand(wx, wy, tipDist) ==
  [i \in 0..20 |->
     IF i \in {4, 8, 12, 16, 20} THEN Pt3(wx, wy, tipDist)
     ELSE IF i \in {5, 9, 13, 17} THEN Pt3(wx, wy, R(1, 10))
     ELSE Pt3(wx, wy, Zero)]

\* wrist positions in normalized camera space
Wrists == {Pt2(Zero, Zero), Pt2(One, R(1, 2))}

\* fingertip distances giving tension 0, exactly 7/10 and 9/10
TipDists == {R(4, 25), R(6, 125), R(2, 125)}

Hands == {Hand(w.x, w.y, tipDist) : w \in Wrists, tipDist \in TipDists}

\* detectForVideo: it throws, or returns result.landmarks with at most one
\* hand (numHands: 1)
Detections ==
  {[throws |-> TRUE, hands |-> <<>>]}
    \cup {[throws |-> FALSE, hands |-> hs] : hs \in {<<>>} \cup {<<h>> : h \in Hands}}

\* what a rejected step throws: an Error with a message, or another value
Thrown ==
  {[isError |-> TRUE, message |-> "Permission denied"],
   [isError |-> FALSE, message |-> ""]}

RafIds == 1..3

\* A scripted hand: it closes from tension 0 to 9/10 in equal steps over five
\* frames with the wrist at rest, then stays closed for MaxHold frames with the
\* wrist 1/10 further in x, reached in one step or (ramp) 1/10 further on every
\* frame.
MaxHold == 2

\* fingertip distances giving tension 0, 9/40, 9/20, 27/40 and 9/10
ScenarioTips == <<R(4, 25), R(31, 250), R(11, 125), R(13, 250), R(2, 125)>>

ScenarioFrames == Len(ScenarioTips) + MaxHold

ScenarioStarts == {Pt2(R(a, 10), R(b, 10)) : a \in 0..4, b \in {2, 5, 8}}

Scripts == [wrist : ScenarioStarts, ramp : BOOLEAN]

ScenarioWristAt(sc, t) ==
  LET held == t - Len(ScenarioTips) + 1
  IN  IF held <= 0 THEN sc.wrist
      ELSE Pt2(RAdd(sc.wrist.x, R(IF sc.ramp THEN held ELSE 1, 10)), sc.wrist.y)

ScenarioHandAt(sc, t) ==
  LET w == ScenarioWristAt(sc, t)
      tip == ScenarioTips[IF t < Len(ScenarioTips) THEN t + 1 ELSE Len(ScenarioTips)]
  IN  Hand(w.x, w.y, tip)

ScenarioHands == {ScenarioHandAt(sc, t) : sc \in Scripts, t \in 0..(ScenarioFrames - 1)}

\* what detectForVideo may do on the frame the video shows: anything, or in a
\* scripted run the hand of the script
DetectionsNow ==
  IF scenario = Null THEN Detections
  ELSE {[throws |-> FALSE, hands |-> <<ScenarioHandAt(scenario[1], videoTime)>>]}

\* how many frames the video has
FrameLimit == IF scenario = Null THEN MaxFrames ELSE ScenarioFrames

-----------------------------------------------------------------------------
(* The two branches of processFrame *)

\* line 171, computeTension(hand), tabulated over the hands of the model
tensionOf == [h \in Hands \cup ScenarioHands |-> computeTension(h)]

\* What the last processed frame showed: no hand, or a hand with its wrist and
\* tension ("init" before the first one).
FrameOf(kind, wrist, t) == [kind |-> kind, wrist |-> wrist, tension |-> t]

\* lines 168-221: a frame with a hand
HandFrame(hand) ==
  LET wrist == hand[0]
      t == tensionOf[hand]
      base == InitBase(baseWristPos, wrist)
      zoom == SmoothZoom(lastZoom, TargetZoom(t))
      closed == IsFistClosed(t)
      pan == IF closed THEN ClosedPan(lastPan, wrist, base) ELSE OpenPan(lastPan)
      out == IF closed THEN ClosedEmittedPan(pan) ELSE OpenEmittedPan(pan)
  IN  /\ baseWristPos' = IF closed THEN base ELSE OpenBase(base, wrist)
      /\ lastZoom' = zoom
      /\ lastPan' = pan
      /\ controlsRef' = Signal(EmittedZoom(zoom), out.x, out.y)
      /\ controls' = controlsRef'
      /\ nControls' = nControls + 1
      /\ frame' = FrameOf(IF closed THEN "closed" ELSE "open", Pt2(wrist.x, wrist.y), t)

\* lines 222-236: a frame without a hand
NoHandFrame ==
  /\ baseWristPos' = NoHandBase(baseWristPos)
  /\ lastPan' = NoHandPan(lastPan)
  /\ lastZoom' = lastZoom
  /\ controlsRef' = NoHandControls(controlsRef, lastPan')
  /\ controls' = controlsRef'
  /\ nControls' = nControls + 1
  /\ frame' = FrameOf("none", Pt2(Zero, Zero), Zero)

-----------------------------------------------------------------------------
(* processFrame, lines 154-239 *)

\* requestAnimationFrame(processFrame) with `pending` the requests still pending
Schedule(pending) ==
  LET id == CHOOSE i \in RafIds : i \notin pending /\ i # rafRef
  IN  /\ rafRef' = id
      /\ scheduled' = pending \cup {id}

\* line 155
FrameGuard(detector, video) == detector # 0 /\ video

\* detectForVideo threw in this call
Threw(detector, det) ==
  /\ FrameGuard(detector, videoRef)
  /\ lastVideoTime # videoTime
  /\ det.throws

\* processFrame returning at line 161 without the request of line 160
processFrameStaleStops(detector, pending, det) ==
  IF ~FrameGuard(detector, videoRef)
    THEN /\ scheduled' = pending
         /\ UNCHANGED <<rafRef, gestureVars>>
  ELSE IF lastVideoTime = videoTime
    THEN /\ scheduled' = pending
         /\ UNCHANGED <<rafRef, gestureVars>>
  ELSE /\ lastVideoTime' = videoTime
       /\ IF det.throws
            THEN /\ scheduled' = pending
                 /\ UNCHANGED <<rafRef, lastPan, lastZoom, baseWristPos, controlsRef,
                                controls, nControls, frame>>
            ELSE /\ IF Len(det.hands) >= 1 THEN HandFrame(det.hands[1]) ELSE NoHandFrame
                 /\ Schedule(pending)

\* the body of processFrame, called with handLandmarker.current = detector
processFrame(detector, pending, det) ==
  IF ~FrameGuard(detector, videoRef)
    THEN /\ scheduled' = pending
         /\ UNCHANGED <<rafRef, gestureVars>>
  ELSE IF lastVideoTime = videoTime
    THEN /\ Schedule(pending)
         /\ UNCHANGED gestureVars
  ELSE /\ lastVideoTime' = videoTime
       /\ IF det.throws
            THEN /\ scheduled' = pending
                 /\ UNCHANGED <<rafRef, lastPan, lastZoom, baseWristPos, controlsRef,
                                controls, nControls, frame>>
            ELSE /\ IF Len(det.hands) >= 1 THEN HandFrame(det.hands[1]) ELSE NoHandFrame
                 /\ Schedule(pending)

-----------------------------------------------------------------------------
(* start, lines 118-152, and the effect with its cleanup, lines 107-116 *)

Steps == {"getUserMedia", "play", "fileset", "create"}

\* line 147
ErrMessage(err) == IF err.isError THEN err.message ELSE "Unable to access camera"

\* start() without the onError?.(null) of line 122
StartSyncKeepsError ==
  /\ state' = "initializing"
  /\ error' = Null
  /\ cameraError' = cameraError
  /\ pc' = "getUserMedia"
  /\ nStarts' = nStarts + 1

\* lines 120-124: start() up to its first await
StartSync ==
  /\ state' = "initializing"
  /\ error' = Null
  /\ cameraError' = Null
  /\ pc' = "getUserMedia"
  /\ nStarts' = nStarts + 1

\* the catch block without the onError?.(message) of line 150
CatchNoReport(err) ==
  /\ state' = "error"
  /\ error' = Some(ErrMessage(err))
  /\ cameraError' = cameraError
  /\ pc' = "failed"

\* lines 146-151
Catch(err) ==
  /\ state' = "error"
  /\ error' = Some(ErrMessage(err))
  /\ cameraError' = Some(ErrMessage(err))
  /\ pc' = "failed"

\* the Retry button rendered whenever no start is in flight
RetryShownWhenReady == mounted /\ state \in {"error", "ready"}

\* line 244: the Retry button is rendered
RetryShown == mounted /\ state = "error"

\* the effect of lines 107-108 runs once after the component mounted
Mount ==
  /\ mounted /\ pc = "idle"
  /\ StartSync
  /\ UNCHANGED <<mounted, videoRef, resourceVars, rafVars, videoTime, gestureVars,
                 restVars>>

Retry ==
  /\ RetryShown
  /\ nStarts < MaxStarts
  /\ StartSync
  /\ UNCHANGED <<mounted, videoRef, resourceVars, rafVars, videoTime, gestureVars,
                 restVars>>

\* a step of start() rejects (or throws)
StepFails ==
  /\ pc \in Steps
  /\ \E err \in Thrown : Catch(err)
  /\ UNCHANGED <<mounted, videoRef, nStarts, resourceVars, rafVars, videoTime,
                 gestureVars, restVars>>

\* lines 124-130: getUserMedia resolves with a new stream
GetUserMediaOk ==
  /\ pc = "getUserMedia"
  /\ liveStreams' = liveStreams \cup {nStarts}
  /\ IF ~videoRef
       THEN /\ pc' = "aborted"
            /\ UNCHANGED <<srcObject, videoTime>>
       ELSE /\ srcObject' = nStarts
            /\ videoTime' = 0
            /\ pc' = "play"
  /\ UNCHANGED <<state, error, cameraError, mounted, videoRef, nStarts, handLandmarker,
                 openDetectors, rafVars, gestureVars, restVars>>

\* lines 130-132
PlayOk ==
  /\ pc = "play"
  /\ pc' = "fileset"
  /\ UNCHANGED <<state, error, cameraError, mounted, videoRef, nStarts, resourceVars,
                 rafVars, videoTime, gestureVars, restVars>>

\* lines 132-136
FilesetOk ==
  /\ pc = "fileset"
  /\ pc' = "create"
  /\ UNCHANGED <<state, error, cameraError, mounted, videoRef, nStarts, resourceVars,
                 rafVars, videoTime, gestureVars, restVars>>

\* lines 136-151: the detector is created, the state set and the first frame
\* processed, inside the try block
CreateOk ==
  /\ pc = "create"
  /\ handLandmarker' = nStarts
  /\ openDetectors' = openDetectors \cup {nStarts}
  /\ \E det \in DetectionsNow :
       /\ processFrame(nStarts, scheduled, det)
       /\ IF Threw(nStarts, det)
            THEN \E err \in Thrown : Catch(err)
            ELSE /\ state' = "ready"
                 /\ pc' = "running"
                 /\ UNCHANGED <<error, cameraError>>
  /\ UNCHANGED <<mounted, videoRef, nStarts, srcObject, liveStreams, videoTime,
                 restVars>>

\* a pending animation-frame request fires
Tick ==
  /\ \E id \in scheduled : \E det \in DetectionsNow :
       processFrame(handLandmarker, scheduled \ {id}, det)
  /\ UNCHANGED <<trackerVars, resourceVars, videoTime, restVars>>

\* the playing video shows its next frame (in a scripted run every frame is
\* processed before the next one shows)
AdvanceVideo ==
  /\ pc \in {"fileset", "create", "running"}
  /\ videoTime < FrameLimit - 1
  /\ scenario # Null => lastVideoTime = videoTime
  /\ videoTime' = videoTime + 1
  /\ UNCHANGED <<trackerVars, resourceVars, rafVars, gestureVars, restVars>>

\* lines 109-114, run when the component unmounts. React detaches the ref of
\* the <video> element on unmount; whether the cleanup still reads the element
\* (refSeen) depends on the React version.
Cleanup(refSeen) ==
  /\ scheduled' = IF rafRef # 0 THEN scheduled \ {rafRef} ELSE scheduled
  /\ openDetectors' = IF handLandmarker # 0 THEN openDetectors \ {handLandmarker}
                      ELSE openDetectors
  /\ liveStreams' = IF refSeen /\ srcObject # 0 THEN liveStreams \ {srcObject}
                    ELSE liveStreams

Unmount ==
  /\ mounted /\ pc # "idle"
  /\ mounted' = FALSE
  /\ videoRef' = FALSE
  /\ \E refSeen \in BOOLEAN : Cleanup(refSeen)
  /\ UNCHANGED <<state, error, cameraError, pc, nStarts, srcObject, handLandmarker,
                 rafRef, videoTime, gestureVars, restVars>>

\* the state after the first render of App and HandTracker, before the effect
InitTracker ==
  /\ state = "idle"
  /\ error = Null
  /\ cameraError = Null
  /\ mounted = TRUE
  /\ videoRef = TRUE
  /\ srcObject = 0
  /\ liveStreams = {}
  /\ handLandmarker = 0
  /\ openDetectors = {}
  /\ rafRef = 0
  /\ scheduled = {}
  /\ pc = "idle"
  /\ nStarts = 0
  /\ videoTime = 0
  /\ lastVideoTime = -1
  /\ lastPan = Pt2(Zero, Zero)
  /\ lastZoom = One
  /\ baseWristPos = Null
  /\ controlsRef = InitControlsRef
  /\ controls = initialControls
  /\ nControls = 0
  /\ frame = FrameOf("init", Pt2(Zero, Zero), Zero)

\* generateGeometry has not been called
IdleGeometry ==
  /\ shapeType = "sphere"
  /\ count = 0
  /\ index = 0
  /\ positions = <<>>
  /\ writes = <<>>
  /\ gPc = "idle"

\* part_000 lines 87-321 and Controls.tsx lines 275-276: the scene after the
\* effects of the first render, in the initial mode 'solar' with no model chosen
InitScene ==
  /\ mode = "solar"
  /\ modeRef = "solar"
  /\ modelUrl = 0
  /\ modelRef = 0
  /\ inScene = {}
  /\ visibleObjs = {}
  /\ sceneVisible = [sun |-> TRUE, stars |-> TRUE, system |-> TRUE, dots |-> FALSE]
  /\ loads = {}
  /\ nFiles = 0

IdleTension == handIn = Null /\ tensionOut = Null

Init ==
  /\ InitTracker
  /\ IdleTension
  /\ scenario = Null
  /\ IdleGeometry
  /\ InitScene

Next ==
  \/ Mount
  \/ Retry
  \/ StepFails
  \/ GetUserMediaOk
  \/ PlayOk
  \/ FilesetOk
  \/ CreateOk
  \/ Tick
  \/ AdvanceVideo
  \/ Unmount

Spec == Init /\ [][Next]_vars

-----------------------------------------------------------------------------
(* computeTension on its own: a hand is drawn, and the function applied *)

\* Where a fingertip may lie relative to the wrist: on it, 1/10 away (a 3-4-5
\* offset in the image plane), 1/5 away in depth.
TipOffsets == {Pt3(Zero, Zero, Zero), Pt3(R(3, 50), R(4, 50), Zero), Pt3(Zero, Zero, R(1, 5))}

\* Where a finger base may lie relative to the wrist: on it, or 1/10 away.
BaseOffsets == {Pt3(Zero, Zero, Zero), Pt3(Zero, R(1, 10), Zero)}

Shift(p, o) == Pt3(RAdd(p.x, o.x), RAdd(p.y, o.y), RAdd(p.z, o.z))

TensionWrist == Pt3(R(1, 2), R(1, 2), Zero)

TensionInputs ==
  {[i \in 0..20 |->
      IF i \in {4, 8, 12, 16, 20} THEN Shift(TensionWrist, tips[i])
      ELSE IF i \in {5, 9, 13, 17} THEN Shift(TensionWrist, bases[i])
      ELSE TensionWrist] :
     tips \in [{4, 8, 12, 16, 20} -> TipOffsets],
     bases \in [{5, 9, 13, 17} -> BaseOffsets]}

InitTension ==
  /\ InitTracker
  /\ handIn \in TensionInputs
  /\ tensionOut = Null
  /\ scenario = Null
  /\ IdleGeometry
  /\ InitScene

ApplyTension ==
  /\ tensionOut = Null
  /\ tensionOut' = Some(computeTension(handIn))
  /\ UNCHANGED <<trackerVars, resourceVars, rafVars, videoTime, gestureVars, handIn,
                 scenario, geometryVars, sceneVars>>

SpecTension == InitTension /\ [][ApplyTension]_vars

-----------------------------------------------------------------------------
(* The hand tracker in front of a scripted hand *)

InitScenario ==
  /\ InitTracker
  /\ IdleTension
  /\ \E sc \in Scripts : scenario = Some(sc)
  /\ IdleGeometry
  /\ InitScene

SpecScenario == InitScenario /\ [][Next]_vars

-----------------------------------------------------------------------------
(* generateGeometry, geometryFactory.ts: one call, one loop iteration a step *)

MaxCount == 7

ShapeTypes == {"sphere", "heart", "flower", "saturn", "buddha", "fireworks"}

\* what Math.random() may return where the result decides a branch or a radius
Rand == {R(1, 10), R(1, 2), R(9, 10)}

\* line 3, u being what Math.random() returned
rand(u, min, max) == RAdd(RMul(u, RSub(max, min)), min)

\* A coordinate is kept as the generator it came from, the parameter the
\* generator was given and the axis; the trigonometry is not evaluated.
Point(gen, param) == [k \in 0..2 |-> [gen |-> gen, param |-> param, axis |-> k]]

randomOnSphere(radius) == Point("randomOnSphere", radius)

randomInSphere(radius) == Point("randomInSphere", radius)

heartPoint == Point("heart", Zero)

phyllotaxisPoint(i, total) == Point("phyllotaxis", R(i, total))

\* the ring taken above 60% of the indices
UseRingAboveSixty(i, total) == RLt(R(6, 10), R(i, total))

\* line 61
UseRing(i, total) == RLt(R(4, 10), R(i, total))

saturnPoint(i, total) ==
  LET ringRatio == R(45, 100)
  IN  IF UseRing(i, total) THEN Point("ring", Zero)
      ELSE randomOnSphere(RSub(One, ringRatio))

buddhaPoint(region) ==
  IF RLt(region, R(35, 100)) THEN Point("buddha head", R(55, 100))
  ELSE IF RLt(region, R(75, 100)) THEN Point("buddha body", One)
  ELSE Point("buddha base", Zero)

\* lines 100-121, u being the first Math.random() of the iteration
PointOf(type, i, total, u) ==
  CASE type = "sphere" -> randomOnSphere(R(11, 10))
    [] type = "heart" -> heartPoint
    [] type = "flower" -> phyllotaxisPoint(i, total)
    [] type = "saturn" -> saturnPoint(i, total)
    [] type = "buddha" -> buddhaPoint(u)
    [] type = "fireworks" -> randomInSphere(rand(u, One, R(18, 10)))
    [] OTHER -> randomOnSphere(One)

\* an element of a new Float32Array
Unwritten == [from |-> -1, value |-> [gen |-> "zero", param |-> Zero, axis |-> 0]]

\* line 95
BufferLength(n) == n * 3

\* two elements a point
SlotPacked(i, k) == i * 2 + k

\* lines 123-125: the element axis k of point i goes to
Slot(i, k) == i * 3 + k

\* an assignment to an element of a typed array; outside the array it is ignored
Store(buf, slot, v) == IF slot \in DOMAIN buf THEN [buf EXCEPT ![slot] = v] ELSE buf

RECURSIVE StorePoint(_, _, _, _)
\* lines 123-125, axes k..2; each element remembers the point it came from
StorePoint(buf, i, point, k) ==
  IF k > 2 THEN buf
  ELSE StorePoint(Store(buf, Slot(i, k), [from |-> i, value |-> point[k]]), i, point, k + 1)

RECURSIVE CountPoint(_, _, _)
CountPoint(w, i, k) ==
  IF k > 2 THEN w
  ELSE CountPoint(Store(w, Slot(i, k), IF Slot(i, k) \in DOMAIN w THEN w[Slot(i, k)] + 1 ELSE 0),
                  i, k + 1)

InitGeometry ==
  /\ InitTracker
  /\ IdleTension
  /\ scenario = Null
  /\ InitScene
  /\ shapeType \in ShapeTypes \cup {"other"}
  /\ count \in 0..MaxCount
  /\ index = 0
  /\ positions = <<>>
  /\ writes = <<>>
  /\ gPc = "call"

trackerAll == <<trackerVars, resourceVars, rafVars, videoTime, gestureVars>>

\* line 95
Allocate ==
  /\ gPc = "call"
  /\ positions' = [k \in 0..(BufferLength(count) - 1) |-> Unwritten]
  /\ writes' = [k \in 0..(BufferLength(count) - 1) |-> 0]
  /\ gPc' = "loop"
  /\ UNCHANGED <<trackerAll, tensionVars, scenario, sceneVars, shapeType, count, index>>

\* lines 97-126, one iteration
Iterate ==
  /\ gPc = "loop"
  /\ index < count
  /\ \E u \in Rand :
       LET point == PointOf(shapeType, index, count, u)
       IN  /\ positions' = StorePoint(positions, index, point, 0)
           /\ writes' = CountPoint(writes, index, 0)
  /\ index' = index + 1
  /\ UNCHANGED <<trackerAll, tensionVars, scenario, sceneVars, shapeType, count, gPc>>

\* lines 97 and 128: the loop ends and the buffer is returned
Return ==
  /\ gPc = "loop"
  /\ ~(index < count)
  /\ gPc' = "done"
  /\ UNCHANGED <<trackerAll, tensionVars, scenario, sceneVars, shapeType, count, index,
                 positions, writes>>

NextGeometry == Allocate \/ Iterate \/ Return

SpecGeometry == InitGeometry /\ [][NextGeometry]_vars

-----------------------------------------------------------------------------
(* The scene renderer (part_000) under App's mode buttons and file input *)

MaxFiles == 3

Modes == {"solar", "dots", "model"}

\* what the scene renderer and App's mode and file handlers never touch
sceneRest == <<trackerAll, tensionVars, scenario, geometryVars>>

\* part_000 lines 310-320, the effect of [mode]; the loaded object is the one
\* modelRef holds when the effect runs
ModeEffect(m) ==
  /\ sceneVisible' = [sun |-> m = "solar", stars |-> TRUE, system |-> m = "solar",
                      dots |-> m = "dots"]
  /\ visibleObjs' = IF modelRef = 0 THEN visibleObjs
                    ELSE IF m = "model" THEN visibleObjs \cup {modelRef}
                    ELSE visibleObjs \ {modelRef}
  /\ modeRef' = m

\* Controls.tsx line 309: a mode button is clicked; the effect of [mode] runs
\* when the mode has changed
SetMode(m) ==
  /\ m # mode
  /\ mode' = m
  /\ ModeEffect(m)
  /\ UNCHANGED <<modelUrl, modelRef, inScene, loads, nFiles, sceneRest>>

\* Controls.tsx lines 278-286 and part_000 lines 327-396: a file is chosen; the
\* new modelUrl and mode 'model' are rendered, the effect of [mode] runs when
\* the mode has changed, then the effect of [modelUrl] starts a load
HandleFile(isImage) ==
  /\ nFiles < MaxFiles
  /\ nFiles' = nFiles + 1
  /\ modelUrl' = nFiles + 1
  /\ mode' = "model"
  /\ IF mode # "model" THEN ModeEffect("model")
     ELSE UNCHANGED <<sceneVisible, visibleObjs, modeRef>>
  /\ loads' = loads \cup {[id |-> nFiles + 1, isImage |-> isImage]}
  /\ UNCHANGED <<modelRef, inScene, sceneRest>>

\* part_000 lines 348-365 and 374-382: a load completes; the object in
\* modelRef leaves the scene, the new object (created visible, as every
\* THREE.Object3D) is stored in modelRef and added
LoadDone(l) ==
  /\ l \in loads
  /\ loads' = loads \ {l}
  /\ inScene' = (IF modelRef # 0 THEN inScene \ {modelRef} ELSE inScene) \cup {l.id}
  /\ modelRef' = l.id
  /\ visibleObjs' = visibleObjs \cup {l.id}
  /\ UNCHANGED <<mode, modeRef, modelUrl, sceneVisible, nFiles, sceneRest>>

\* part_000 lines 367-369 and 384-386: a load fails
LoadError(l) ==
  /\ l \in loads
  /\ loads' = loads \ {l}
  /\ UNCHANGED <<mode, modeRef, modelUrl, modelRef, inScene, visibleObjs, sceneVisible,
                 nFiles, sceneRest>>

NextScene ==
  \/ \E m \in Modes : SetMode(m)
  \/ \E isImage \in BOOLEAN : HandleFile(isImage)
  \/ \E l \in loads : LoadDone(l)
  \/ \E l \in loads : LoadError(l)

SpecScene == Init /\ [][NextScene]_vars

-----------------------------------------------------------------------------
(* Properties *)

InUnit(v) == IsFinite(v) /\ RLe(Zero, v) /\ RLe(v, One)

InPanRange(v) == RLe(R(-1, 1), v) /\ RLe(v, One)

InZoomRange(v) == RLe(R(1, 2), v) /\ RLe(v, R(5, 2))

\* a frame reached onControls in this step
Processed == nControls' = nControls + 1

\* C1: every ControlSignal handed to onControls has panX and panY in [-1, 1].
C1_PanInRange ==
  nControls > 0 => InPanRange(controls.panX) /\ InPanRange(controls.panY)

\* C2: every ControlSignal handed to onControls, on hand frames and on no-hand
\* frames, has zoom in [0.5, 2.5].
C2_ZoomInRange == nControls > 0 => InZoomRange(controls.zoom)

\* C2 witness: a no-hand frame hands on the zoom an earlier hand frame left.
C2_Witness ==
  /\ frame.kind = "none"
  /\ controls.zoom # One
  /\ nControls >= 2

\* C6: computeTension returns a value in [0, 1]; 1 when the average
\* fingertip-to-wrist distance is 0; 0 when that average is at least 1.6 times
\* the average base-to-wrist distance.
C6_TensionContract ==
  tensionOut # Null =>
    /\ InUnit(tensionOut[1])
    /\ AvgTip(handIn) = Zero => tensionOut[1] = One
    /\ RLe(RMul(PalmSize(handIn), R(16, 10)), AvgTip(handIn)) => tensionOut[1] = Zero

\* C3: once the component is unmounted and no step of start() is in flight any
\* more, no camera track is live, no detector is open and no frame callback is
\* scheduled.
C3_StopReleasesAll ==
  (~mounted /\ pc \notin Steps) =>
    liveStreams = {} /\ openDetectors = {} /\ scheduled = {}

\* C4: while a start is in flight the state is 'initializing', never 'ready';
\* once it has failed the state is 'error' and onError has been handed a message
\* string, the one shown by the tracker.
C4_FailureReported ==
  /\ pc \in Steps => state = "initializing"
  /\ pc = "failed" =>
       /\ state = "error"
       /\ cameraError # Null
       /\ cameraError[1] \in STRING
       /\ error = cameraError

\* C4 witness: a start failed after the camera was acquired (at play, at the
\* fileset load or at the detector creation).
C4_Witness == pc = "failed" /\ srcObject # 0 /\ handLandmarker = 0

\* C5: the state leaves 'error' only by a retry, which needs the Retry button
\* and makes the state 'initializing', clears the error through onError(null)
\* and invokes start() with no stream acquired yet; while the acquisition is
\* pending the error stays cleared; a start that ran to its end without failing
\* leaves the state 'ready'.
C5_RetryFromError ==
  /\ [][(state = "error" /\ state' # "error") =>
          /\ RetryShown
          /\ state' = "initializing"
          /\ cameraError' = Null
          /\ error' = Null
          /\ pc' = "getUserMedia"
          /\ nStarts' = nStarts + 1
          /\ liveStreams' = liveStreams]_vars
  /\ [](pc = "getUserMedia" => cameraError = Null)
  /\ [](pc = "running" => state = "ready")

\* C5 witness: a retry from 'error' went through every step and the tracker is
\* ready.
C5_Witness == state = "ready" /\ nStarts = 2 /\ pc = "running"

AbsLe(a, b) == RLe(RAbs(a), RAbs(b))
AbsLt(a, b) == RLt(RAbs(a), RAbs(b))

\* Both axes of p are at most those of q in magnitude and one is smaller: for
\* axes scaled by a common factor, the Euclidean norm of p is below that of q.
PanSmaller(p, q) ==
  /\ AbsLe(p.x, q.x) /\ AbsLe(p.y, q.y)
  /\ AbsLt(p.x, q.x) \/ AbsLt(p.y, q.y)

Scaled(p, f) == Pt2(RMul(p.x, f), RMul(p.y, f))

NoHandStep == Processed /\ frame'.kind = "none"

\* C7 as stated: on every processed frame with no hand each pan axis is
\* multiplied by 0.9 and the pan magnitude strictly decreases, whatever the pan.
C7_StrictDecay ==
  [][NoHandStep =>
       /\ lastPan' = Scaled(lastPan, R(9, 10))
       /\ PanSmaller(lastPan', lastPan)]_vars

\* C7 amended: on every processed frame with no hand each pan axis is multiplied
\* by 0.9 and that pan is the one handed to onControls; the pan magnitude
\* strictly decreases when the pan is not (0, 0), and a pan of (0, 0) stays.
C7_DecayUnlessZero ==
  [][NoHandStep =>
       /\ lastPan' = Scaled(lastPan, R(9, 10))
       /\ controls'.panX = lastPan'.x /\ controls'.panY = lastPan'.y
       /\ lastPan # Pt2(Zero, Zero) => PanSmaller(lastPan', lastPan)
       /\ lastPan = Pt2(Zero, Zero) => lastPan' = Pt2(Zero, Zero)]_vars

\* C7 witness: two no-hand frames in a row have decayed a pan that is not zero.
C7_Witness ==
  /\ frame.kind = "none"
  /\ lastPan # Pt2(Zero, Zero)
  /\ lastPan.x = RMul(R(12, 5), R(81, 100))

\* C8: after a processed frame with no hand the anchor is null; after a
\* processed frame with an open hand the anchor is that frame's wrist position.
C8_AnchorAfterFrame ==
  /\ frame.kind = "none" => baseWristPos = Null
  /\ frame.kind = "open" => baseWristPos = Some(frame.wrist)

\* C8 witness: an open hand relatched the anchor away from the origin after
\* earlier frames.
C8_Witness ==
  /\ frame.kind = "open"
  /\ baseWristPos = Some(Pt2(One, R(1, 2)))
  /\ nControls >= 2

ClosedStep == Processed /\ frame'.kind = "closed"

\* C9 as stated: on the first closed frame of a run the anchor is that frame's
\* wrist position, whatever frame came before, and no later closed frame of the
\* run changes it.
C9_AnchorIsRunStart ==
  [][ClosedStep =>
       baseWristPos' = IF frame.kind = "closed" THEN baseWristPos
                       ELSE Some(frame'.wrist)]_vars

\* C9 amended: on the first closed frame of a run the anchor is the wrist
\* position of the open-hand frame processed just before it, or, after a no-hand
\* frame or with no frame before, the wrist position of that first closed frame;
\* no later closed frame of the run changes it; and the pan delta of every closed
\* frame is taken from that anchor.
C9_AnchorOfRun ==
  [][ClosedStep =>
       /\ baseWristPos' = IF frame.kind = "closed" THEN baseWristPos
                          ELSE IF frame.kind = "open" THEN Some(frame.wrist)
                          ELSE Some(frame'.wrist)
       /\ lastPan'.x = RAdd(RMul(lastPan.x, R(6, 10)),
                            RMul(RSub(frame'.wrist.x, baseWristPos'[1].x), R(24, 10)))]_vars

\* C9 witness: a closed frame whose anchor is not its own wrist position, the
\* second frame processed.
C9_Witness ==
  /\ frame.kind = "closed"
  /\ baseWristPos # Some(frame.wrist)
  /\ nControls = 2

\* C10: whenever start() has just been invoked, the first time or by a retry,
\* the gesture state is at its defaults.
C10_StartAtDefaults ==
  pc = "getUserMedia" =>
    /\ lastZoom = One
    /\ lastPan = Pt2(Zero, Zero)
    /\ baseWristPos = Null
    /\ lastVideoTime = -1

\* a pending animation-frame request fired in this step
TickStep == UNCHANGED <<mounted, pc>> /\ scheduled' # scheduled

\* C11: a tick that finds video.currentTime equal to the timestamp of the last
\* processed frame changes no gesture state, does not invoke onControls, and
\* schedules exactly one next frame callback, the one rafRef then holds.
C11_StaleTickSkips ==
  [][(TickStep /\ lastVideoTime = videoTime) =>
       /\ UNCHANGED <<lastVideoTime, lastZoom, lastPan, baseWristPos, controlsRef,
                      controls, nControls, frame>>
       /\ Cardinality(scheduled' \ scheduled) = 1
       /\ Cardinality(scheduled \ scheduled') = 1
       /\ rafRef' \in scheduled' \ scheduled]_vars

\* C11 witness: after the one frame processed by start(), a tick on the same
\* video frame has left a second request pending.
C11_Witness ==
  /\ nControls = 1
  /\ nStarts = 1
  /\ lastVideoTime = videoTime
  /\ rafRef = 2
  /\ scheduled = {2}

\* C12: while the tracker is mounted at most one processFrame callback is
\* scheduled.
C12_OneLoop == mounted => Cardinality(scheduled) <= 1

\* C12 witness: the loop runs after a failed start and a retry.
C12_Witness ==
  /\ mounted
  /\ nStarts = 2
  /\ state = "ready"
  /\ Cardinality(scheduled) = 1
  /\ nControls >= 2

HandStep == Processed /\ frame'.kind \in {"open", "closed"}

\* C16: on a processed frame with a hand of tension at most 0.7 each pan axis is
\* multiplied by 0.85, whatever the wrist position, that pan is the one emitted
\* and no axis grows in magnitude; on a frame with tension above 0.7 the pan is
\* driven by the wrist delta from the anchor.
C16_PanGatedByFist ==
  [][HandStep =>
       IF RLe(frame'.tension, R(7, 10))
         THEN /\ frame'.kind = "open"
              /\ lastPan' = Scaled(lastPan, R(85, 100))
              /\ controls'.panX = lastPan'.x /\ controls'.panY = lastPan'.y
              /\ AbsLe(lastPan'.x, lastPan.x) /\ AbsLe(lastPan'.y, lastPan.y)
         ELSE /\ frame'.kind = "closed"
              /\ lastPan'.x = RAdd(RMul(lastPan.x, R(6, 10)),
                                   RMul(RSub(frame'.wrist.x, baseWristPos'[1].x), R(24, 10)))
              /\ lastPan'.y = RSub(RMul(lastPan.y, R(6, 10)),
                                   RMul(RSub(frame'.wrist.y, baseWristPos'[1].y), R(24, 10)))]_vars

\* C16 witness: a hand at exactly the threshold, away from the anchor's origin,
\* has decayed the pan a closed-fist drag left.
C16_Witness ==
  /\ frame.kind = "open"
  /\ frame.tension = R(7, 10)
  /\ lastPan = Pt2(RMul(R(12, 5), R(85, 100)), RMul(R(-6, 5), R(85, 100)))

\* C15: in a scripted run (the hand closes from tension 0 to 0.9 over five
\* frames, then the wrist moves +0.1 in x with the fist closed) every processed
\* frame emits a zoom above the one before it and below 2.3, the emitted panX
\* is never negative and never above 1, and it is positive on every frame after
\* the wrist has moved.
C15_ClosingHandScenario ==
  [][Processed =>
       /\ RLt(controls.zoom, controls'.zoom)
       /\ RLt(controls'.zoom, R(23, 10))
       /\ RLe(Zero, controls'.panX) /\ RLe(controls'.panX, One)
       /\ videoTime >= Len(ScenarioTips) => RLt(Zero, controls'.panX)]_vars

\* C15 witness: the script has run to its seventh frame, the second with the
\* wrist moved; the zoom has passed 3/2 and panX is positive.
C15_Witness ==
  /\ scenario # Null
  /\ nControls = 7
  /\ frame.tension = R(9, 10)
  /\ RLt(R(3, 2), controls.zoom)
  /\ RLt(Zero, controls.panX)

Returned == gPc = "done"

\* C13: for every shape identifier, an unrecognized one included, and every
\* count N >= 0, the buffer generateGeometry returns has exactly 3N elements,
\* element 3i+k holds axis k of point i, and every element has been assigned
\* exactly once.
C13_FlatTriples ==
  Returned =>
    /\ DOMAIN positions = 0..(3 * count - 1)
    /\ \A i \in 0..(count - 1) : \A k \in 0..2 :
         /\ positions[3 * i + k].from = i
         /\ positions[3 * i + k].value.axis = k
         /\ writes[3 * i + k] = 1

\* C13 witness: an unrecognized shape with three points has been generated.
C13_Witness ==
  /\ Returned
  /\ shapeType = "other"
  /\ count = 3
  /\ positions[8].from = 2

IsSpherePoint(i) == positions[3 * i].value.gen = "randomOnSphere"

SphereCount == Cardinality({i \in 0..(count - 1) : IsSpherePoint(i)})

\* within one point of the fraction num/5 of count
AboutFifths(n, num) == Abs(5 * n - num * count) <= 5

\* C14 as stated: of the N points of 'saturn' about 60% (within one point)
\* are on the sphere shell and about 40% in the ring.
C14_SixtyPercentSphere ==
  (Returned /\ shapeType = "saturn") =>
    AboutFifths(SphereCount, 3) /\ AboutFifths(count - SphereCount, 2)

\* C14 amended: point i of 'saturn' is on the sphere shell (radius 0.55) exactly
\* when i/N <= 0.4 and in the ring otherwise, so about 40% of the points
\* (within one point) are on the sphere and about 60% in the ring.
C14_FortyPercentSphere ==
  (Returned /\ shapeType = "saturn") =>
    /\ \A i \in 0..(count - 1) :
         /\ IsSpherePoint(i) <=> 5 * i <= 2 * count
         /\ IsSpherePoint(i) => positions[3 * i].value.param = R(11, 20)
         /\ ~IsSpherePoint(i) => positions[3 * i].value.gen = "ring"
    /\ AboutFifths(SphereCount, 2)
    /\ AboutFifths(count - SphereCount, 3)

\* C14 witness: seven points of 'saturn', three on the sphere and four in the ring.
C14_Witness ==
  /\ Returned
  /\ shapeType = "saturn"
  /\ count = 7
  /\ SphereCount = 3

\* C17: whenever the mode is 'solar' or 'dots', no loaded model or image sphere
\* in the scene is visible.
C17_ModelOnlyInModelMode ==
  mode \in {"solar", "dots"} => inScene \cap visibleObjs = {}

====
